---- MODULE Spec2Model ----
(***************************************************************************)
(* Suraj Thermal Printer: the ESC/POS encoder, the Bluetooth device linker *)
(* and the chunked BLE transport of src/App.tsx, as a state machine.       *)
(*                                                                         *)
(* A JavaScript string is a sequence of code points, a Uint8Array is a     *)
(* sequence of bytes.  The JavaScript value null is the model value NULL.  *)
(* A handler closure sees the state of the render it was created in: each  *)
(* asynchronous task carries the config (and device handle) it captured    *)
(* when it was started, while functional updates setX(p => ...) act on     *)
(* the current state.                                                      *)
(***************************************************************************)
EXTENDS Integers, Sequences, FiniteSets, TLC

VARIABLES config, stored, btDevice, loading, isConnecting, saveStatus,
          booted, attempts, links, aiTasks, osPrints, clicks, call

vars == <<config, stored, btDevice, loading, isConnecting, saveStatus,
          booted, attempts, links, aiTasks, osPrints, clicks, call>>

NULL == "NULL"

(***************************************************************************)
(* Bounds of the model.                                                    *)
(***************************************************************************)
MaxPrints == 2
MaxLinks == 1
MaxAi == 1
MaxClicks == 3

(***************************************************************************)
(* Strings and bytes.                                                      *)
(***************************************************************************)
\* ss[lo] \o ... \o ss[hi], by halves.
RECURSIVE FlattenRange(_, _, _)
FlattenRange(ss, lo, hi) ==
    IF lo > hi THEN <<>>
    ELSE IF lo = hi THEN ss[lo]
    ELSE CHOOSE r \in {FlattenRange(ss, lo, mid) \o FlattenRange(ss, mid + 1, hi) :
                         mid \in {(lo + hi) \div 2}} : TRUE

\* The concatenation of a sequence of sequences (v is ss, evaluated once).
Flatten(ss) == CHOOSE r \in {FlattenRange(v, 1, Len(v)) : v \in {ss}} : TRUE

\* String.prototype.toUpperCase on one code point (Basic Latin and Latin-1).
UpperOf(c) ==
    IF c >= 97 /\ c <= 122 THEN <<c - 32>>
    ELSE IF c = 223 THEN <<83, 83>>
    ELSE IF c >= 224 /\ c <= 254 /\ c # 247 THEN <<c - 32>>
    ELSE <<c>>

\* (v is s, evaluated once.)
toUpperCase(s) ==
    CHOOSE r \in {Flatten([i \in 1..Len(v) |-> UpperOf(v[i])]) : v \in {s}} : TRUE

\* TextEncoder.encode on one code point: UTF-8.
Utf8Of(c) ==
    IF c < 128 THEN <<c>>
    ELSE IF c < 2048 THEN <<192 + (c \div 64), 128 + (c % 64)>>
    ELSE <<224 + (c \div 4096), 128 + ((c \div 64) % 64), 128 + (c % 64)>>

\* TextEncoder.encode on a string (v is s, evaluated once).
TextEncode(s) ==
    CHOOSE r \in {Flatten([i \in 1..Len(v) |-> Utf8Of(v[i])]) : v \in {s}} : TRUE

NL2 == <<10, 10>>

\* "\n--- Developed by ---\nMubasshir Husain\n\n\n\n"
FooterText ==
    <<10, 45, 45, 45, 32, 68, 101, 118, 101, 108, 111, 112, 101, 100, 32, 98,
      121, 32, 45, 45, 45, 10, 77, 117, 98, 97, 115, 115, 104, 105, 114, 32,
      72, 117, 115, 97, 105, 110, 10, 10, 10, 10>>

(***************************************************************************)
(* encodeEscPos.                                                           *)
(***************************************************************************)
FontSizes == {"sm", "base", "lg", "xl"}
TextAligns == {"left", "center", "right"}

\* AlignCode that aligns every body left.
AlignCode_Left(a) == 0

\* alignMap[textAlign]; a missing key gives undefined, which a Uint8Array
\* stores as 0.
AlignCode(a) ==
    CASE a = "left" -> 0
      [] a = "center" -> 1
      [] a = "right" -> 2
      [] OTHER -> 0

\* SizeCode with lg and xl one step smaller.
SizeCode_Smaller(f) ==
    CASE f = "lg" -> 0
      [] f = "xl" -> 17
      [] OTHER -> 0

\* sizeMap[fontSize]
SizeCode(f) ==
    CASE f = "sm" -> 0
      [] f = "base" -> 0
      [] f = "lg" -> 17
      [] f = "xl" -> 34
      [] OTHER -> 0

ResetCmd == <<27, 64>>
AlignCmd(n) == <<27, 97, n>>
BoldCmd(n) == <<27, 69, n>>
SizeCmd(n) == <<29, 33, n>>
CutCmd == <<29, 86, 0>>

\* HeaderBlock without the test of config.headerText.
HeaderBlock_Always(c) ==
    AlignCmd(1) \o BoldCmd(1) \o TextEncode(toUpperCase(c.headerText) \o NL2)
    \o BoldCmd(0)

\* HeaderBlock that follows the config's textAlign and bold.
HeaderBlock_ByConfig(c) ==
    IF c.headerText # <<>>
    THEN AlignCmd(AlignCode(c.textAlign)) \o BoldCmd(IF c.bold THEN 1 ELSE 0)
         \o TextEncode(toUpperCase(c.headerText) \o NL2) \o BoldCmd(0)
    ELSE <<>>

HeaderBlock(c) ==
    IF c.headerText # <<>>
    THEN AlignCmd(1) \o BoldCmd(1) \o TextEncode(toUpperCase(c.headerText) \o NL2)
         \o BoldCmd(0)
    ELSE <<>>

\* BodyBlock that prints a bold body when config.bold is set.
BodyBlock_Bold(c) ==
    AlignCmd(AlignCode(c.textAlign)) \o SizeCmd(SizeCode(c.fontSize))
    \o (IF c.bold THEN BoldCmd(1) ELSE <<>>) \o TextEncode(c.content \o NL2)

BodyBlock(c) ==
    AlignCmd(AlignCode(c.textAlign)) \o SizeCmd(SizeCode(c.fontSize))
    \o TextEncode(c.content \o NL2)

FooterBlock == AlignCmd(1) \o SizeCmd(0) \o TextEncode(FooterText)

\* encodeEscPos that sends the footer ahead of the receipt.
encodeEscPos_FooterFirst(c) ==
    ResetCmd \o FooterBlock \o HeaderBlock(c) \o BodyBlock(c) \o CutCmd

encodeEscPos(c) == ResetCmd \o HeaderBlock(c) \o BodyBlock(c) \o FooterBlock \o CutCmd

(***************************************************************************)
(* PrinterConfig, the persisted snapshot and the Bluetooth devices.        *)
(***************************************************************************)
\* 'SURAJ THERMAL PRINTER'
DefaultHeaderText ==
    <<83, 85, 82, 65, 74, 32, 84, 72, 69, 82, 77, 65, 76, 32, 80, 82, 73, 78,
      84, 69, 82>>

\* 'Welcome to Suraj Thermal Printer.\n\nReady to print your receipts.\n\n
\*  Developed by: Mubasshir Husain'
DefaultContent ==
    <<87, 101, 108, 99, 111, 109, 101, 32, 116, 111, 32, 83, 117, 114, 97,
      106, 32, 84, 104, 101, 114, 109, 97, 108, 32, 80, 114, 105, 110, 116,
      101, 114, 46, 10, 10, 82, 101, 97, 100, 121, 32, 116, 111, 32, 112,
      114, 105, 110, 116, 32, 121, 111, 117, 114, 32, 114, 101, 99, 101, 105,
      112, 116, 115, 46, 10, 10, 68, 101, 118, 101, 108, 111, 112, 101, 100,
      32, 98, 121, 58, 32, 77, 117, 98, 97, 115, 115, 104, 105, 114, 32, 72,
      117, 115, 97, 105, 110>>

\* useState<PrinterConfig>({...})
DefaultConfig ==
    [headerText |-> DefaultHeaderText,
     headerImage |-> NULL,
     headerImageName |-> "",
     content |-> DefaultContent,
     fontSize |-> "base",
     textAlign |-> "center",
     bold |-> FALSE,
     useBluetooth |-> FALSE,
     linkedPrinterName |-> NULL]

ConfigKeys == DOMAIN DefaultConfig

\* A localStorage item: absent, text that is no JSON, or the JSON text of an
\* object, held as its members <<key, value>> in the order they are written.
Absent == [kind |-> "absent", members |-> <<>>]
Garbage == [kind |-> "garbage", members |-> <<>>]

\* The own keys of a config object, in insertion order.
KeyOrder ==
    <<"headerText", "headerImage", "headerImageName", "content", "fontSize",
      "textAlign", "bold", "useBluetooth", "linkedPrinterName">>

\* JSON.stringify of a config object.
JSONstringify(c) ==
    [kind |-> "json",
     members |-> [i \in 1..Len(KeyOrder) |-> <<KeyOrder[i], c[KeyOrder[i]]>>]]

\* JSON.parse of the text of an object (it throws on text that is no JSON).
JSONparse(item) ==
    LET m == item.members
        keys == {m[i][1] : i \in 1..Len(m)}
        last(k) == CHOOSE i \in 1..Len(m) :
                      /\ m[i][1] = k
                      /\ \A j \in 1..Len(m) : m[j][1] = k => j <= i
    IN [k \in keys |-> m[last(k)][2]]

\* { ...prev, ...parsed }
Spread(prev, parsed) ==
    [k \in DOMAIN prev \cup DOMAIN parsed |->
        IF k \in DOMAIN parsed THEN parsed[k] ELSE prev[k]]

\* What the user's input, the clipboard, the file reader and the AI service
\* can deliver.
ShortText == <<72, 233, 10, 49>>
FormattedText == <<45, 45, 10, 72, 105>>
TypedContents == {ShortText}
TypedHeaders == {<<>>}
Images == {"data:image/png"}

\* A BluetoothDevice: its advertised name and whether device.gatt is defined.
NoDevice == [id |-> 0, name |-> NULL, gatt |-> FALSE]
Devices ==
    {[id |-> 1, name |-> "P1", gatt |-> TRUE],
     [id |-> 2, name |-> "P2", gatt |-> FALSE]}

\* The snapshot a previous session left after linking printer P1.
LinkedSnapshot ==
    JSONstringify([DefaultConfig EXCEPT !.linkedPrinterName = "P1",
                                        !.useBluetooth = TRUE])

\* The text {"fontSize":"huge"}: it parses, and it is no PrinterConfig.
HugeSnapshot == [kind |-> "json", members |-> << <<"fontSize", "huge">> >>]

StoredAtStartup == {Absent, Garbage, LinkedSnapshot, HugeSnapshot}

(***************************************************************************)
(* services/geminiService: getAI, extractContentFromUrl, formatThermalText.*)
(***************************************************************************)
\* What a function hands to its caller: a value, or an exception.
Return(v) == [threw |-> FALSE, value |-> v]
Throw == [threw |-> TRUE, value |-> <<>>]

\* The world of one service call: process.env.API_KEY (unset, set, or the
\* client cannot be built from it), whether generateContent rejects, and
\* response.text (empty when the model returned no text).
ApiKeys == {"unset", "set", "throws"}
Requests == {"ok", "rejects"}
ResponseTexts == {<<>>, FormattedText}
Envs == [key : ApiKeys, request : Requests, text : ResponseTexts]

\* "AI services temporarily unavailable. Please paste content manually."
Unavailable ==
    <<65, 73, 32, 115, 101, 114, 118, 105, 99, 101, 115, 32, 116, 101, 109,
      112, 111, 114, 97, 114, 105, 108, 121, 32, 117, 110, 97, 118, 97,
      105, 108, 97, 98, 108, 101, 46, 32, 80, 108, 101, 97, 115, 101, 32,
      112, 97, 115, 116, 101, 32, 99, 111, 110, 116, 101, 110, 116, 32,
      109, 97, 110, 117, 97, 108, 108, 121, 46>>

\* "No content extracted."
NoContent ==
    <<78, 111, 32, 99, 111, 110, 116, 101, 110, 116, 32, 101, 120, 116,
      114, 97, 99, 116, 101, 100, 46>>

\* "Error fetching from URL. Try copying and pasting the text instead."
FetchError ==
    <<69, 114, 114, 111, 114, 32, 102, 101, 116, 99, 104, 105, 110, 103,
      32, 102, 114, 111, 109, 32, 85, 82, 76, 46, 32, 84, 114, 121, 32, 99,
      111, 112, 121, 105, 110, 103, 32, 97, 110, 100, 32, 112, 97, 115,
      116, 105, 110, 103, 32, 116, 104, 101, 32, 116, 101, 120, 116, 32,
      105, 110, 115, 116, 101, 97, 100, 46>>

\* getAI(): the client, or null without a key or when building it throws.
getAI(env) ==
    LET body == IF env.key = "throws" THEN Throw
                ELSE IF env.key = "unset" THEN Return(NULL)
                ELSE Return("ai")
    IN IF body.threw THEN NULL ELSE body.value

\* await ai.models.generateContent(...)
generateContent(env) ==
    IF env.request = "rejects" THEN Throw ELSE Return(env.text)

extractContentFromUrl(env, url) ==
    IF getAI(env) = NULL THEN Return(Unavailable)
    ELSE LET response == generateContent(env)
             body == IF response.threw THEN response
                     ELSE Return(IF response.value # <<>> THEN response.value
                                 ELSE NoContent)
         IN IF body.threw THEN Return(FetchError) ELSE body

\* formatThermalText without its catch.
formatThermalText_NoCatch(env, text) ==
    IF getAI(env) = NULL THEN Return(text)
    ELSE LET response == generateContent(env)
         IN IF response.threw THEN response
            ELSE Return(IF response.value # <<>> THEN response.value
                        ELSE text)

formatThermalText(env, text) ==
    IF getAI(env) = NULL THEN Return(text)
    ELSE LET response == generateContent(env)
             body == IF response.threw THEN response
                     ELSE Return(IF response.value # <<>> THEN response.value
                                 ELSE text)
         IN IF body.threw THEN Return(text) ELSE body

\* One call of a service function on its own: its argument, its world and,
\* once it has returned, what the caller got.
ServiceNames == {"formatThermalText", "extractContentFromUrl"}
ServiceArgs == {<<>>, ShortText, DefaultContent}
NoCall ==
    [st |-> "none", fn |-> "none", arg |-> <<>>,
     env |-> [key |-> "unset", request |-> "ok", text |-> <<>>],
     result |-> Return(<<>>)]
ServiceCalls ==
    [st : {"called"}, fn : ServiceNames, arg : ServiceArgs, env : Envs,
     result : {Return(<<>>)}]

(***************************************************************************)
(* A call of encodeEscPos on its own.                                      *)
(***************************************************************************)
\* A JSON number where a string is expected: held as a sequence whose first
\* element is no code point.
Number(n) == <<-1, n>>
IsString(v) == \A i \in 1..Len(v) : v[i] >= 0

\* The text {"headerText":5}: it parses, and headerText is no string.
NumberSnapshot ==
    [kind |-> "json", members |-> << <<"headerText", Number(5)>> >>]

\* encodeEscPos(config) as its caller sees it: a truthy headerText that is
\* no string has no toUpperCase, and the call is a TypeError.
EncodeCall(c) ==
    IF c.headerText # <<>> /\ ~IsString(c.headerText) THEN Throw
    ELSE Return(encodeEscPos(c))

\* The configs the form can produce, and the configs the load effect
\* produces from a stored snapshot.
EncoderHeaders == {<<>>, <<104, 233>>, DefaultHeaderText}
EncoderContents == {<<>>, ShortText, DefaultContent}
TypedConfigs ==
    [headerText : EncoderHeaders,
     headerImage : {NULL, "data:image/png"},
     headerImageName : {"", "logo.png"},
     content : EncoderContents,
     fontSize : FontSizes,
     textAlign : TextAligns,
     bold : BOOLEAN,
     useBluetooth : BOOLEAN,
     linkedPrinterName : {NULL, "P1"}]
LoadedConfigs ==
    {Spread(DefaultConfig, JSONparse(item)) :
        item \in {LinkedSnapshot, HugeSnapshot, NumberSnapshot}}
EncoderCalls ==
    [st : {"called"}, fn : {"encodeEscPos"},
     arg : TypedConfigs \cup LoadedConfigs,
     env : {NoCall.env}, result : {Return(<<>>)}]

(***************************************************************************)
(* The tasks in flight.                                                    *)
(***************************************************************************)
ChunkSize == 20

\* data.slice(from, to): the bytes at offsets from .. to-1.
Slice(data, from, to) ==
    LET hi == IF to < Len(data) THEN to ELSE Len(data)
    IN IF from >= hi THEN <<>> ELSE [k \in 1..(hi - from) |-> data[from + k]]

\* requestDevice's options: the filter of the discovery.
ServiceUuid == "000018f0-0000-1000-8000-00805f9b34fb"
ServiceFilter == [by |-> "services", value |-> ServiceUuid]
NameFilter(name) == [by |-> "name", value |-> name]
NoFilter == [by |-> "none", value |-> ""]

\* The devices requestDevice can resolve with under a filter: every modelled
\* device is a printer that advertises the service.
Matches(device, filter) ==
    IF filter.by = "name" THEN device.name = filter.value ELSE TRUE

\* NewAttempt that takes a retained handle for connected.
NewAttempt_SkipConnect(cfg, dev) ==
    [pc |-> IF dev = NoDevice THEN "Discovering" ELSE "ServiceResolving",
     cfg |-> cfg,
     dev |-> dev,
     filter |-> IF dev = NoDevice THEN NameFilter(cfg.linkedPrinterName)
                ELSE NoFilter,
     connected |-> FALSE,
     server |-> dev.gatt,
     service |-> FALSE,
     chr |-> FALSE,
     data |-> <<>>,
     i |-> 0,
     inflight |-> 0,
     written |-> <<>>,
     alert |-> "none",
     err |-> "none"]

\* NewAttempt that re-discovers by the service filter of linkBluetooth.
NewAttempt_ByService(cfg, dev) ==
    [pc |-> IF dev = NoDevice THEN "Discovering" ELSE "Connecting",
     cfg |-> cfg,
     dev |-> dev,
     filter |-> IF dev = NoDevice THEN ServiceFilter ELSE NoFilter,
     connected |-> FALSE,
     server |-> FALSE,
     service |-> FALSE,
     chr |-> FALSE,
     data |-> <<>>,
     i |-> 0,
     inflight |-> 0,
     written |-> <<>>,
     alert |-> "none",
     err |-> "none"]

\* One run of handleBluetoothPrint past its early return: its locals, the
\* discovery it asks for, and whether its own gatt.connect() has resolved.
NewAttempt(cfg, dev) ==
    [pc |-> IF dev = NoDevice THEN "Discovering" ELSE "Connecting",
     cfg |-> cfg,
     dev |-> dev,
     filter |-> IF dev = NoDevice THEN NameFilter(cfg.linkedPrinterName)
                ELSE NoFilter,
     connected |-> FALSE,
     server |-> FALSE,
     service |-> FALSE,
     chr |-> FALSE,
     data |-> <<>>,
     i |-> 0,
     inflight |-> 0,
     written |-> <<>>,
     alert |-> "none",
     err |-> "none"]

Active(a) == a.pc \notin {"Done", "Failed"}

\* characteristic.writeValue(data.slice(i, i + chunkSize)) is called.
IssueWrite(a) ==
    [a EXCEPT !.inflight = @ + 1,
              !.written = Append(@, Slice(a.data, a.i, a.i + ChunkSize))]

\* AwaitedWrite without the await: the loop goes on while the write is out.
AwaitedWrite_NotAwaited(a) == [a EXCEPT !.i = @ + ChunkSize]

\* The awaited write has resolved: i += chunkSize.
AwaitedWrite(a) == [a EXCEPT !.inflight = @ - 1, !.i = @ + ChunkSize]

\* The body of the for loop from its condition on: the next write, or the
\* statements after the loop.
LoopStep(a) ==
    IF a.i < Len(a.data)
    THEN IssueWrite(a)
    ELSE [a EXCEPT !.pc = "Done", !.alert = "sent"]

\* The call that attempt a awaits has rejected.
Rejected(a) ==
    [a EXCEPT !.err = a.pc,
              !.inflight = IF a.pc = "Writing" THEN @ - 1 ELSE @]

\* Caught with the try/catch inside the loop: a failed write is skipped.
Caught_Swallowed(a) ==
    IF a.err = "Writing"
    THEN LoopStep([a EXCEPT !.i = @ + ChunkSize])
    ELSE [a EXCEPT !.pc = "Failed", !.alert = "offline"]

\* catch (e) { alert("Printer offline ..."); ... }
Caught(a) == [a EXCEPT !.pc = "Failed", !.alert = "offline"]

\* A handler the user starts: the page has loaded; the model follows the user
\* for MaxClicks such actions.
UserAction ==
    /\ booted
    /\ clicks < MaxClicks
    /\ clicks' = clicks + 1

(***************************************************************************)
(* Initial state: the first render, before the load effect has run.        *)
(***************************************************************************)
Init ==
    /\ config = DefaultConfig
    /\ stored \in StoredAtStartup
    /\ btDevice = NoDevice
    /\ loading = FALSE
    /\ isConnecting = FALSE
    /\ saveStatus = FALSE
    /\ booted = FALSE
    /\ attempts = <<>>
    /\ links = <<>>
    /\ aiTasks = <<>>
    /\ osPrints = 0
    /\ clicks = 0
    /\ call = NoCall

\* useEffect(() => { ... }, []): restore the saved configuration.
Load ==
    /\ ~booted
    /\ booted' = TRUE
    /\ config' = IF stored.kind = "json"
                 THEN Spread(config, JSONparse(stored))
                 ELSE config
    /\ UNCHANGED <<call, stored, btDevice, loading, isConnecting, saveStatus,
                   attempts, links, aiTasks, osPrints, clicks>>

\* handleSave(updatedConfig?): what it writes to localStorage.
\* DataToSave that ignores its argument and saves the rendered config.
DataToSave_Current(args, current) == current

\* The argument list is <<>> or <<updatedConfig>>.
DataToSave(args, current) == IF args # <<>> THEN args[1] ELSE current

handleSave(args) ==
    /\ stored' = JSONstringify(DataToSave(args, config))
    /\ saveStatus' = TRUE

\* The save button.
Save ==
    /\ UserAction
    /\ handleSave(<<>>)
    /\ UNCHANGED <<call, config, btDevice, loading, isConnecting, booted, attempts,
                   links, aiTasks, osPrints>>

\* setTimeout(() => setSaveStatus(false), 2000)
SaveStatusTimeout ==
    /\ saveStatus
    /\ saveStatus' = FALSE
    /\ UNCHANGED <<call, config, stored, btDevice, loading, isConnecting, booted,
                   attempts, links, aiTasks, osPrints, clicks>>

\* The System / Bluetooth buttons.
\* ToggleMode that forgets the linked printer when it leaves Bluetooth mode.
ToggleMode_Unlinks(b) ==
    /\ UserAction
    /\ LET nc == [config EXCEPT !.useBluetooth = b,
                                !.linkedPrinterName = IF b THEN @ ELSE NULL]
       IN /\ config' = nc
          /\ handleSave(<<nc>>)
    /\ UNCHANGED <<call, btDevice, loading, isConnecting, booted, attempts, links,
                   aiTasks, osPrints>>

ToggleMode(b) ==
    /\ UserAction
    /\ LET nc == [config EXCEPT !.useBluetooth = b]
       IN /\ config' = nc
          /\ handleSave(<<nc>>)
    /\ UNCHANGED <<call, btDevice, loading, isConnecting, booted, attempts, links,
                   aiTasks, osPrints>>

\* The textarea's onChange.
TypeContent(s) ==
    /\ UserAction
    /\ config' = [config EXCEPT !.content = s]
    /\ UNCHANGED <<call, stored, btDevice, loading, isConnecting, saveStatus, booted,
                   attempts, links, aiTasks, osPrints>>

\* The header input's onChange.
TypeHeader(s) ==
    /\ UserAction
    /\ config' = [config EXCEPT !.headerText = s]
    /\ UNCHANGED <<call, stored, btDevice, loading, isConnecting, saveStatus, booted,
                   attempts, links, aiTasks, osPrints>>

\* The clipboard button, once readText() has resolved with text.
Paste(text) ==
    /\ UserAction
    /\ text # <<>>
    /\ config' = [config EXCEPT !.content = text]
    /\ UNCHANGED <<call, stored, btDevice, loading, isConnecting, saveStatus, booted,
                   attempts, links, aiTasks, osPrints>>

\* reader.onload of the header image input.
ImageLoaded(img) ==
    /\ UserAction
    /\ config' = [config EXCEPT !.headerImage = img]
    /\ UNCHANGED <<call, stored, btDevice, loading, isConnecting, saveStatus, booted,
                   attempts, links, aiTasks, osPrints>>

(***************************************************************************)
(* The text-transform buttons.                                             *)
(***************************************************************************)
\* The AI reformat button: formatThermalText(config.content) is awaited.
ReformatClick ==
    /\ UserAction
    /\ Len(aiTasks) < MaxAi
    /\ loading' = TRUE
    /\ aiTasks' = Append(aiTasks, [kind |-> "reformat", text |-> config.content])
    /\ UNCHANGED <<call, config, stored, btDevice, isConnecting, saveStatus, booted,
                   attempts, links, osPrints>>

\* The URL extract button: extractContentFromUrl(url) is awaited.
ExtractClick ==
    /\ UserAction
    /\ Len(aiTasks) < MaxAi
    /\ loading' = TRUE
    /\ aiTasks' = Append(aiTasks, [kind |-> "extract", text |-> <<>>])
    /\ UNCHANGED <<call, config, stored, btDevice, isConnecting, saveStatus, booted,
                   attempts, links, osPrints>>

RemoveAt(seq, n) == [k \in 1..(Len(seq) - 1) |-> IF k < n THEN seq[k] ELSE seq[k + 1]]

\* How the awaited service call of a task ends in a given world.
AiResults(t, env) ==
    IF t.kind = "reformat" THEN formatThermalText(env, t.text)
    ELSE extractContentFromUrl(env, t.text)

\* The awaited call is over: setConfig(p => ({...p, content})), or the catch
\* that only logs; then finally setLoading(false).
AiResolved(n, env) ==
    /\ n \in 1..Len(aiTasks)
    /\ LET result == AiResults(aiTasks[n], env)
       IN config' = IF result.threw THEN config
                    ELSE [config EXCEPT !.content = result.value]
    /\ loading' = FALSE
    /\ aiTasks' = RemoveAt(aiTasks, n)
    /\ UNCHANGED <<call, stored, btDevice, isConnecting, saveStatus, booted, attempts,
                   links, osPrints, clicks>>

(***************************************************************************)
(* linkBluetooth.                                                          *)
(***************************************************************************)
\* linkBluetooth up to its await of requestDevice({filters: [{services}]}).
StartLink ==
    /\ Len(links) < MaxLinks
    /\ isConnecting' = TRUE
    /\ links' = Append(links, [st |-> "pending", cfg |-> config,
                                filter |-> ServiceFilter,
                                dev |-> NoDevice, alert |-> "none"])

\* The link button, shown in Bluetooth mode and disabled while connecting.
LinkClick ==
    /\ UserAction
    /\ config.useBluetooth
    /\ ~isConnecting
    /\ StartLink
    /\ UNCHANGED <<call, config, stored, btDevice, loading, saveStatus, booted,
                   attempts, aiTasks, osPrints>>

\* The config that linkBluetooth stores after a successful discovery.
LinkedConfig(cfg, device) ==
    [cfg EXCEPT !.linkedPrinterName = device.name, !.useBluetooth = TRUE]

\* requestDevice resolved with a device.
LinkResolved(n, device) ==
    /\ n \in 1..Len(links)
    /\ links[n].st = "pending"
    /\ Matches(device, links[n].filter)
    /\ btDevice' = device
    /\ LET newConfig == LinkedConfig(links[n].cfg, device)
       IN /\ config' = newConfig
          /\ handleSave(<<newConfig>>)
    /\ isConnecting' = FALSE
    /\ links' = [links EXCEPT ![n].st = "linked", ![n].dev = device]
    /\ UNCHANGED <<call, loading, booted, attempts, aiTasks, osPrints, clicks>>

\* LinkRejected that falls back to System mode as a failed print does.
LinkRejected_ClearsMode(n) ==
    /\ n \in 1..Len(links)
    /\ links[n].st = "pending"
    /\ isConnecting' = FALSE
    /\ links' = [links EXCEPT ![n].st = "failed", ![n].alert = "failed"]
    /\ config' = [config EXCEPT !.useBluetooth = FALSE]
    /\ UNCHANGED <<call, stored, btDevice, loading, saveStatus, booted, attempts,
                   aiTasks, osPrints, clicks>>

\* requestDevice rejected: alert("Bluetooth connection failed. ..."), then
\* finally.
LinkRejected(n) ==
    /\ n \in 1..Len(links)
    /\ links[n].st = "pending"
    /\ isConnecting' = FALSE
    /\ links' = [links EXCEPT ![n].st = "failed", ![n].alert = "failed"]
    /\ UNCHANGED <<call, config, stored, btDevice, loading, saveStatus, booted,
                   attempts, aiTasks, osPrints, clicks>>

(***************************************************************************)
(* triggerPrint and handleBluetoothPrint.  Each action is one run of the   *)
(* handler from one await to the next.                                     *)
(***************************************************************************)
\* !config.linkedPrinterName
Falsy(name) == name = NULL \/ name = ""

\* PrintOs that opens the dialog in either mode.
PrintOs_AnyMode ==
    /\ UserAction
    /\ ~loading
    /\ osPrints' = osPrints + 1
    /\ UNCHANGED <<call, config, stored, btDevice, loading, isConnecting, saveStatus,
                   booted, attempts, links, aiTasks>>

\* triggerPrint in System mode: window.print().
PrintOs ==
    /\ UserAction
    /\ ~loading
    /\ ~config.useBluetooth
    /\ osPrints' = osPrints + 1
    /\ UNCHANGED <<call, config, stored, btDevice, loading, isConnecting, saveStatus,
                   booted, attempts, links, aiTasks>>

\* handleBluetoothPrint with no linked printer: linkBluetooth(); return.
PrintLinks ==
    /\ UserAction
    /\ ~loading
    /\ config.useBluetooth
    /\ Falsy(config.linkedPrinterName)
    /\ StartLink
    /\ UNCHANGED <<call, config, stored, btDevice, loading, saveStatus, booted,
                   attempts, aiTasks, osPrints>>

\* handleBluetoothPrint with a linked printer, up to its first await:
\* requestDevice({filters: [{name}]}) without a handle, gatt?.connect() with.
PrintBluetooth ==
    /\ UserAction
    /\ ~loading
    /\ config.useBluetooth
    /\ ~Falsy(config.linkedPrinterName)
    /\ Len(attempts) < MaxPrints
    /\ loading' = TRUE
    /\ attempts' = Append(attempts, NewAttempt(config, btDevice))
    /\ UNCHANGED <<call, config, stored, btDevice, isConnecting, saveStatus, booted,
                   links, aiTasks, osPrints>>

\* Fails without the defensive setConfig.
Fails_KeepMode(n) ==
    /\ attempts' = [attempts EXCEPT ![n] = Caught(Rejected(attempts[n]))]
    /\ loading' = FALSE
    /\ UNCHANGED <<call, config, stored, btDevice, isConnecting, saveStatus, booted,
                   links, aiTasks, osPrints, clicks>>

\* Fails that clears the flag in the config of its closure.
Fails_StaleConfig(n) ==
    /\ attempts' = [attempts EXCEPT ![n] = Caught(Rejected(attempts[n]))]
    /\ config' = [attempts[n].cfg EXCEPT !.useBluetooth = FALSE]
    /\ loading' = FALSE
    /\ UNCHANGED <<call, stored, btDevice, isConnecting, saveStatus, booted, links,
                   aiTasks, osPrints, clicks>>

\* An awaited call of attempt n has rejected: catch, then finally.
Fails(n) ==
    /\ attempts' = [attempts EXCEPT ![n] = Caught(Rejected(attempts[n]))]
    /\ config' = [config EXCEPT !.useBluetooth = FALSE]
    /\ loading' = FALSE
    /\ UNCHANGED <<call, stored, btDevice, isConnecting, saveStatus, booted, links,
                   aiTasks, osPrints, clicks>>

\* GoesOn without the finally block.
GoesOn_NoFinally(n, a) ==
    /\ attempts' = [attempts EXCEPT ![n] = a]
    /\ loading' = loading
    /\ UNCHANGED <<call, config, stored, isConnecting, saveStatus, booted, links,
                   aiTasks, osPrints, clicks>>

\* Attempt n goes on without an error; finally runs when it has finished.
GoesOn(n, a) ==
    /\ attempts' = [attempts EXCEPT ![n] = a]
    /\ loading' = IF Active(a) THEN loading ELSE FALSE
    /\ UNCHANGED <<call, config, stored, isConnecting, saveStatus, booted, links,
                   aiTasks, osPrints, clicks>>

\* The re-discovery by name resolved: setBtDevice, then gatt?.connect().
DiscoverResolved(n, device) ==
    /\ n \in 1..Len(attempts)
    /\ attempts[n].pc = "Discovering"
    /\ Matches(device, attempts[n].filter)
    /\ btDevice' = device
    /\ GoesOn(n, [attempts[n] EXCEPT !.dev = device, !.pc = "Connecting"])

DiscoverRejected(n) ==
    /\ n \in 1..Len(attempts)
    /\ attempts[n].pc = "Discovering"
    /\ Fails(n)

\* await activeDevice.gatt?.connect() is over: the server, or undefined when
\* the device has no gatt; then server?.getPrimaryService(...).
ConnectResolved(n) ==
    /\ n \in 1..Len(attempts)
    /\ attempts[n].pc = "Connecting"
    /\ UNCHANGED btDevice
    /\ GoesOn(n, [attempts[n] EXCEPT !.connected = attempts[n].dev.gatt,
                                     !.server = attempts[n].dev.gatt,
                                     !.pc = "ServiceResolving"])

ConnectRejected(n) ==
    /\ n \in 1..Len(attempts)
    /\ attempts[n].pc = "Connecting"
    /\ attempts[n].dev.gatt
    /\ Fails(n)

\* await server?.getPrimaryService(...) is over; then
\* service?.getCharacteristic(...).
ServiceResolved(n) ==
    /\ n \in 1..Len(attempts)
    /\ attempts[n].pc = "ServiceResolving"
    /\ UNCHANGED btDevice
    /\ GoesOn(n, [attempts[n] EXCEPT !.service = attempts[n].server,
                                     !.pc = "CharacteristicResolving"])

ServiceRejected(n) ==
    /\ n \in 1..Len(attempts)
    /\ attempts[n].pc = "ServiceResolving"
    /\ attempts[n].server
    /\ Fails(n)

\* ClosureConfig that reads the config of the latest render.
ClosureConfig_Latest(a, latest) == latest

\* The config that encodeEscPos(config) names in a run of
\* handleBluetoothPrint: the one of the render the handler was created in.
ClosureConfig(a, latest) == a.cfg

\* await service?.getCharacteristic(...) is over; then data = encodeEscPos(config)
\* and the first turn of the loop.
CharacteristicResolved(n) ==
    /\ n \in 1..Len(attempts)
    /\ attempts[n].pc = "CharacteristicResolving"
    /\ UNCHANGED btDevice
    /\ \E data \in {encodeEscPos(ClosureConfig(attempts[n], config))} :
          LET a == [attempts[n] EXCEPT !.chr = attempts[n].service,
                                       !.data = data,
                                       !.pc = "Writing"]
          IN GoesOn(n, IF a.chr THEN LoopStep(a) ELSE a)

CharacteristicRejected(n) ==
    /\ n \in 1..Len(attempts)
    /\ attempts[n].pc = "CharacteristicResolving"
    /\ attempts[n].service
    /\ Fails(n)

\* The offsets the loop still has to visit from offset i on.
RECURSIVE SkipToEnd(_)
SkipToEnd(a) ==
    IF a.i < Len(a.data) THEN SkipToEnd([a EXCEPT !.i = @ + ChunkSize]) ELSE a

\* With characteristic undefined every characteristic?.writeValue(...) is
\* undefined: the loop runs to its end without a write and without leaving
\* the microtask queue.
WritesSkipped(n) ==
    /\ n \in 1..Len(attempts)
    /\ attempts[n].pc = "Writing"
    /\ ~attempts[n].chr
    /\ UNCHANGED btDevice
    /\ GoesOn(n, LoopStep(SkipToEnd(attempts[n])))

\* The awaited writeValue resolved: i += chunkSize and the next turn.
WriteResolved(n) ==
    /\ n \in 1..Len(attempts)
    /\ attempts[n].pc = "Writing"
    /\ attempts[n].inflight > 0
    /\ UNCHANGED btDevice
    /\ GoesOn(n, LoopStep(AwaitedWrite(attempts[n])))

WriteRejected(n) ==
    /\ n \in 1..Len(attempts)
    /\ attempts[n].pc = "Writing"
    /\ attempts[n].inflight > 0
    /\ Fails(n)

Next ==
    \/ Load
    \/ Save
    \/ SaveStatusTimeout
    \/ \E b \in BOOLEAN : ToggleMode(b)
    \/ \E s \in TypedContents : TypeContent(s)
    \/ \E s \in TypedHeaders : TypeHeader(s)
    \/ \E s \in TypedContents : Paste(s)
    \/ \E img \in Images : ImageLoaded(img)
    \/ ReformatClick
    \/ ExtractClick
    \/ \E n \in 1..MaxAi, env \in Envs : AiResolved(n, env)
    \/ LinkClick
    \/ \E n \in 1..MaxLinks, d \in Devices : LinkResolved(n, d)
    \/ \E n \in 1..MaxLinks : LinkRejected(n)
    \/ PrintOs
    \/ PrintLinks
    \/ PrintBluetooth
    \/ \E n \in 1..MaxPrints, d \in Devices : DiscoverResolved(n, d)
    \/ \E n \in 1..MaxPrints :
          \/ DiscoverRejected(n)
          \/ ConnectResolved(n)
          \/ ConnectRejected(n)
          \/ ServiceResolved(n)
          \/ ServiceRejected(n)
          \/ CharacteristicResolved(n)
          \/ CharacteristicRejected(n)
          \/ WritesSkipped(n)
          \/ WriteResolved(n)
          \/ WriteRejected(n)

Spec == Init /\ [][Next]_vars

\* Every Bluetooth operation that a print attempt or a link awaits is settled
\* at some time: it resolves or it rejects.
AttemptStep(n) ==
    \/ \E d \in Devices : DiscoverResolved(n, d)
    \/ DiscoverRejected(n)
    \/ ConnectResolved(n)
    \/ ConnectRejected(n)
    \/ ServiceResolved(n)
    \/ ServiceRejected(n)
    \/ CharacteristicResolved(n)
    \/ CharacteristicRejected(n)
    \/ WritesSkipped(n)
    \/ WriteResolved(n)
    \/ WriteRejected(n)

LinkStep(n) == (\E d \in Devices : LinkResolved(n, d)) \/ LinkRejected(n)

SpecSettling ==
    /\ Init
    /\ [][Next]_vars
    /\ \A n \in 1..MaxPrints : WF_vars(AttemptStep(n))
    /\ \A n \in 1..MaxLinks : WF_vars(LinkStep(n))

(***************************************************************************)
(* The service functions on their own: every argument in every world.      *)
(***************************************************************************)
InitService ==
    /\ config = DefaultConfig
    /\ stored = Absent
    /\ btDevice = NoDevice
    /\ loading = FALSE
    /\ isConnecting = FALSE
    /\ saveStatus = FALSE
    /\ booted = FALSE
    /\ attempts = <<>>
    /\ links = <<>>
    /\ aiTasks = <<>>
    /\ osPrints = 0
    /\ clicks = 0
    /\ call \in ServiceCalls

FormatReturns ==
    /\ call.st = "called"
    /\ call.fn = "formatThermalText"
    /\ call' = [call EXCEPT !.st = "returned",
                            !.result = formatThermalText(call.env, call.arg)]
    /\ UNCHANGED <<config, stored, btDevice, loading, isConnecting, saveStatus,
                   booted, attempts, links, aiTasks, osPrints, clicks>>

ExtractReturns ==
    /\ call.st = "called"
    /\ call.fn = "extractContentFromUrl"
    /\ call' = [call EXCEPT !.st = "returned",
                            !.result = extractContentFromUrl(call.env, call.arg)]
    /\ UNCHANGED <<config, stored, btDevice, loading, isConnecting, saveStatus,
                   booted, attempts, links, aiTasks, osPrints, clicks>>

NextService == FormatReturns \/ ExtractReturns

SpecService == InitService /\ [][NextService]_vars

(***************************************************************************)
(* encodeEscPos on its own: every config of the form and of the load.      *)
(***************************************************************************)
InitEncoder ==
    /\ config = DefaultConfig
    /\ stored = Absent
    /\ btDevice = NoDevice
    /\ loading = FALSE
    /\ isConnecting = FALSE
    /\ saveStatus = FALSE
    /\ booted = FALSE
    /\ attempts = <<>>
    /\ links = <<>>
    /\ aiTasks = <<>>
    /\ osPrints = 0
    /\ clicks = 0
    /\ call \in EncoderCalls

EncodeReturns ==
    /\ call.st = "called"
    /\ call.fn = "encodeEscPos"
    /\ call' = [call EXCEPT !.st = "returned", !.result = EncodeCall(call.arg)]
    /\ UNCHANGED <<config, stored, btDevice, loading, isConnecting, saveStatus,
                   booted, attempts, links, aiTasks, osPrints, clicks>>

NextEncoder == EncodeReturns

SpecEncoder == InitEncoder /\ [][NextEncoder]_vars

(***************************************************************************)
(* Properties of the transport.                                            *)
(***************************************************************************)
Attempts == 1..Len(attempts)

CeilDiv(n, d) == (n + d - 1) \div d

Payload(a) == encodeEscPos(a.cfg)

\* The writes of attempt a are the chunking of its payload.
ChunkedExactly(a) ==
    /\ Len(a.written) = CeilDiv(Len(Payload(a)), ChunkSize)
    /\ \A k \in 1..Len(a.written) : Len(a.written[k]) <= ChunkSize
    /\ Flatten(a.written) = Payload(a)

\* C1: a print that reports success has issued exactly ceil(N/20) writes of
\* at most 20 bytes each, whose concatenation in issue order is the payload.
C1_Chunking ==
    \A n \in Attempts : attempts[n].alert = "sent" => ChunkedExactly(attempts[n])

\* C2: when the write of chunk k fails, chunk k is the last chunk written in
\* that attempt and the attempt is Failed with the failure message, never
\* Done with the success message, from then on.
C2_FailureIsolation ==
    /\ [](\A n \in Attempts :
            attempts[n].err = "Writing" =>
               /\ attempts[n].pc = "Failed"
               /\ attempts[n].alert = "offline"
               /\ Len(attempts[n].written) = (attempts[n].i \div ChunkSize) + 1)
    /\ [][\A n \in Attempts :
            attempts[n].err = "Writing" => attempts'[n] = attempts[n]]_vars

C2_Witness ==
    \E n \in Attempts :
        /\ attempts[n].err = "Writing"
        /\ Len(attempts[n].written) >= 2
        /\ Len(attempts[n].written) < CeilDiv(Len(attempts[n].data), ChunkSize)

\* C3: within one attempt at most one write is outstanding at any moment.
C3_SerializedWrites == \A n \in Attempts : attempts[n].inflight <= 1

C3_Witness ==
    \E n \in Attempts :
        /\ attempts[n].inflight = 1
        /\ Len(attempts[n].written) >= 2

\* C4: at no moment are two print attempts between their start and their
\* Done/Failed outcome.
C4_OnePrintAtATime == Cardinality({n \in Attempts : Active(attempts[n])}) <= 1

\* The stage of the transport's state machine an attempt is in: the
\* re-discovery by name belongs to Connecting.
Stage(a) == IF a.pc = "Discovering" THEN "Connecting" ELSE a.pc

StageSteps ==
    {<<"Idle", "Connecting">>,
     <<"Connecting", "ServiceResolving">>,
     <<"ServiceResolving", "CharacteristicResolving">>,
     <<"CharacteristicResolving", "Writing">>,
     <<"Writing", "Done">>,
     <<"Connecting", "Failed">>,
     <<"ServiceResolving", "Failed">>,
     <<"CharacteristicResolving", "Failed">>,
     <<"Writing", "Failed">>}

\* C5: an attempt moves through Idle, Connecting, ServiceResolving,
\* CharacteristicResolving, Writing, Done in this order, or from one of the
\* four middle stages to Failed; it writes no chunk before Writing; Done and
\* Failed are terminal.
C5_StageOrder ==
    /\ [](\A n \in Attempts :
            attempts[n].written # <<>> =>
               Stage(attempts[n]) \in {"Writing", "Done", "Failed"})
    /\ [][\A n \in 1..Len(attempts') :
            LET from == IF n \in Attempts THEN Stage(attempts[n]) ELSE "Idle"
                to == Stage(attempts'[n])
            IN /\ from = to \/ <<from, to>> \in StageSteps
               /\ from \in {"Done", "Failed"} => attempts'[n] = attempts[n]]_vars

C5_Witness ==
    \E n \in Attempts :
        /\ attempts[n].pc = "Done"
        /\ attempts[n].dev # NoDevice
        /\ attempts[n].chr
        /\ ChunkedExactly(attempts[n])

\* The awaited call of attempt n rejects in this step.
RejectsNow(n) == attempts[n].err = "none" /\ attempts'[n].err # "none"

\* C6: when a step of an attempt raises an error, the attempt shows the
\* failure message, not the success message, and config.useBluetooth is
\* false after the step.
C6_FailureReported ==
    [][\A n \in Attempts :
         RejectsNow(n) =>
            /\ attempts'[n].pc = "Failed"
            /\ attempts'[n].alert = "offline"
            /\ config'.useBluetooth = FALSE]_vars

C6_Witness ==
    \E n \in Attempts :
        /\ attempts[n].err = "Connecting"
        /\ attempts[n].alert = "offline"
        /\ ~config.useBluetooth

\* C7: the failure of an attempt leaves every config field but useBluetooth
\* as it was immediately before.
C7_FailureFrame ==
    [][\A n \in Attempts :
         RejectsNow(n) =>
            \A k \in DOMAIN config \ {"useBluetooth"} :
               k \in DOMAIN config' /\ config'[k] = config[k]]_vars

C7_Witness ==
    \E n \in Attempts :
        /\ attempts[n].pc = "Failed"
        /\ attempts[n].cfg.content # config.content
        /\ attempts[n].cfg.useBluetooth
        /\ ~config.useBluetooth

\* C8: a Bluetooth print attempt that follows a failed one starts with
\* device discovery.
C8_RelinkAfterFailure ==
    [][(/\ Len(attempts') = Len(attempts) + 1
        /\ Len(attempts) >= 1
        /\ attempts[Len(attempts)].pc = "Failed")
       => attempts'[Len(attempts')].pc = "Discovering"]_vars

\* C9: success is reported only when the server, the service and the
\* characteristic were resolved and every chunk was written.
C9_SuccessOnlyIfResolved ==
    \A n \in Attempts :
        attempts[n].alert = "sent" =>
           /\ attempts[n].server
           /\ attempts[n].service
           /\ attempts[n].chr
           /\ Len(attempts[n].written) = CeilDiv(Len(attempts[n].data), ChunkSize)

(***************************************************************************)
(* Properties of the device linker.                                        *)
(***************************************************************************)
Links == 1..Len(links)

\* C10: when discovery succeeds, config has the device's name and Bluetooth
\* mode on, the persisted snapshot has the same two values, and the device
\* is the in-memory handle.
C10_LinkSuccess ==
    [][\A n \in Links :
         (links[n].st = "pending" /\ links'[n].st = "linked") =>
            /\ config'.linkedPrinterName = links'[n].dev.name
            /\ config'.useBluetooth = TRUE
            /\ stored'.kind = "json"
            /\ JSONparse(stored').linkedPrinterName = links'[n].dev.name
            /\ JSONparse(stored').useBluetooth = TRUE
            /\ btDevice' = links'[n].dev]_vars

C10_Witness ==
    \E n \in Links :
        /\ links[n].st = "linked"
        /\ links[n].dev \in Devices
        /\ links[n].cfg.linkedPrinterName # links[n].dev.name

\* C11: when discovery fails, config, the persisted snapshot and the device
\* handle are as before the call's failure, the error is shown, and no new
\* discovery is started.
C11_LinkFailure ==
    [][\A n \in Links :
         (links[n].st = "pending" /\ links'[n].st = "failed") =>
            /\ config' = config
            /\ stored' = stored
            /\ btDevice' = btDevice
            /\ links'[n].alert = "failed"
            /\ Len(links') = Len(links)
            /\ \A m \in Links : links'[m].st = "pending" => links[m].st = "pending"
            /\ Len(attempts') = Len(attempts)]_vars

C11_Witness ==
    \E n \in Links :
        /\ links[n].st = "failed"
        /\ links[n].alert = "failed"
        /\ config.useBluetooth
        /\ btDevice # NoDevice

(***************************************************************************)
(* Properties of the start of a print.                                     *)
(***************************************************************************)
\* A print attempt starts in this step.
StartsAttempt == Len(attempts') = Len(attempts) + 1

\* C12: a print that finds an in-memory handle uses it and runs no
\* discovery; a print that finds none runs a discovery filtered by the
\* stored printer name, and takes what that discovery delivers.
C12_HandleOrNameDiscovery ==
    /\ [](\A n \in Attempts :
            attempts[n].pc = "Discovering" => attempts[n].filter.by = "name")
    /\ [][/\ StartsAttempt =>
               LET a == attempts'[Len(attempts')]
               IN IF btDevice # NoDevice
                  THEN /\ a.pc = "Connecting"
                       /\ a.dev = btDevice
                       /\ a.filter = NoFilter
                  ELSE /\ a.pc = "Discovering"
                       /\ a.filter = NameFilter(config.linkedPrinterName)
          /\ \A n \in Attempts :
               /\ attempts'[n].filter = attempts[n].filter
               /\ attempts'[n].pc = "Discovering" => attempts[n].pc = "Discovering"
               /\ (attempts[n].pc = "Discovering" /\ attempts'[n].pc = "Connecting")
                     => attempts'[n].dev.name = attempts[n].filter.value]_vars

C12_Witness ==
    \E n, m \in Attempts :
        /\ attempts[n].filter.by = "name"
        /\ attempts[n].dev # NoDevice
        /\ attempts[m].filter = NoFilter
        /\ attempts[m].dev = attempts[n].dev
        /\ attempts[m].pc = "Connecting"

\* C13: an attempt writes a chunk only after its own gatt.connect() has
\* resolved, also on a handle that an earlier link or print left behind.
C13_OwnConnect ==
    \A n \in Attempts : attempts[n].written # <<>> => attempts[n].connected

C13_Witness ==
    \E n \in Attempts :
        /\ attempts[n].filter = NoFilter
        /\ attempts[n].connected
        /\ Len(attempts[n].written) >= 2
        /\ \/ \E l \in Links : links[l].dev = attempts[n].dev
           \/ \E m \in Attempts : m < n /\ attempts[m].dev = attempts[n].dev

\* A run of linkBluetooth starts in this step.
StartsLink == Len(links') = Len(links) + 1

\* C14: the OS print dialog opens only in System mode, and that step starts
\* no discovery, no connect and no write and leaves the device handle alone;
\* a print attempt or a discovery starts only in Bluetooth mode, and that
\* step opens no dialog.
C14_TransportByMode ==
    [][/\ osPrints' # osPrints =>
             /\ ~config.useBluetooth
             /\ attempts' = attempts
             /\ links' = links
             /\ btDevice' = btDevice
       /\ (StartsAttempt \/ StartsLink) =>
             /\ config.useBluetooth
             /\ osPrints' = osPrints]_vars

C14_Witness ==
    /\ osPrints > 0
    /\ ~config.useBluetooth
    /\ \E n \in Attempts : attempts[n].written # <<>>

(***************************************************************************)
(* Properties of the text-transform collaborator.                          *)
(***************************************************************************)
\* C15: while an extract or reformat request is pending and no print is in
\* progress, the print button is enabled.
C15_PrintNotBlockedByAi ==
    (aiTasks # <<>> /\ \A n \in Attempts : ~Active(attempts[n])) => ~loading

\* The worlds in which the AI service fails: no credential, a request
\* error, or an empty response.
ServiceFails(env) ==
    \/ getAI(env) = NULL
    \/ env.request = "rejects"
    \/ env.text = <<>>

Fallbacks == {Unavailable, NoContent, FetchError}

\* C16: a service call never throws to its caller; when the AI service
\* fails, formatThermalText returns its argument and extractContentFromUrl
\* returns one of its fixed fallback strings.
C16_GracefulDegradation ==
    call.st = "returned" =>
        /\ ~call.result.threw
        /\ ServiceFails(call.env) =>
              IF call.fn = "formatThermalText"
              THEN call.result.value = call.arg
              ELSE call.result.value \in Fallbacks

C16_Witness ==
    /\ call.st = "returned"
    /\ call.fn = "formatThermalText"
    /\ call.env.key = "set"
    /\ call.env.request = "rejects"
    /\ call.arg = ShortText
    /\ call.result = Return(ShortText)

(***************************************************************************)
(* Properties of the configuration.                                        *)
(***************************************************************************)
\* The values a field of PrinterConfig admits.
ValueOk(k, v) ==
    CASE k = "fontSize" -> v \in FontSizes
      [] k = "textAlign" -> v \in TextAligns
      [] k \in {"bold", "useBluetooth"} -> v \in BOOLEAN
      [] OTHER -> TRUE

\* The item is the text of an object with fields of PrinterConfig only.
WellFormed(item) ==
    /\ item.kind = "json"
    /\ \A i \in 1..Len(item.members) :
          /\ item.members[i][1] \in ConfigKeys
          /\ ValueOk(item.members[i][1], item.members[i][2])

\* C17: the load at startup merges a well-formed stored snapshot over the
\* defaults, and leaves the defaults when the item is absent, unparseable or
\* not a well-formed config.
C17_LoadTolerant ==
    [][(~booted /\ booted') =>
          config' = IF WellFormed(stored)
                    THEN Spread(DefaultConfig, JSONparse(stored))
                    ELSE DefaultConfig]_vars

\* C18: fontSize and textAlign are always among their enumerated values.
C18_EnumFields ==
    /\ config.fontSize \in FontSizes
    /\ config.textAlign \in TextAligns

\* C19: after startup, a step that sets linkedPrinterName to a new non-null
\* value leaves useBluetooth true, and a step that leaves Bluetooth mode or
\* ends a print attempt in failure leaves linkedPrinterName as it was.
C19_LinkedNameAndMode ==
    [][booted =>
          /\ (/\ config'.linkedPrinterName # config.linkedPrinterName
              /\ config'.linkedPrinterName # NULL) => config'.useBluetooth
          /\ (config.useBluetooth /\ ~config'.useBluetooth) =>
                config'.linkedPrinterName = config.linkedPrinterName
          /\ (\E n \in Attempts :
                attempts[n].pc # "Failed" /\ attempts'[n].pc = "Failed") =>
                config'.linkedPrinterName = config.linkedPrinterName]_vars

C19_Witness ==
    /\ stored.kind = "json"
    /\ ~config.useBluetooth
    /\ config.linkedPrinterName # NULL
    /\ \E l \in Links :
          /\ links[l].st = "linked"
          /\ links[l].dev.name = config.linkedPrinterName
          /\ ~links[l].cfg.useBluetooth \/ links[l].cfg.linkedPrinterName = NULL
    /\ \E n \in Attempts : attempts[n].pc = "Failed"

(***************************************************************************)
(* Properties of the encoded byte stream.                                  *)
(***************************************************************************)
\* encodeEscPos has returned bytes.
Encoded ==
    /\ call.st = "returned"
    /\ call.fn = "encodeEscPos"
    /\ ~call.result.threw

\* The footer and the cut, byte by byte.
TailBytes ==
    <<27, 97, 1, 29, 33, 0>> \o TextEncode(FooterText) \o <<29, 86, 0>>

\* The bytes of the body text and its two newlines, and where they start,
\* counted back from the end over the footer and the cut.
BodyBytes(c) == TextEncode(c.content) \o <<10, 10>>
BodyStart(out, c) == Len(out) - Len(TailBytes) - Len(BodyBytes(c)) + 1

\* C21: with an empty headerText the reset is followed by the body's
\* alignment and size commands and then the body, with no bold command and
\* no header newlines; with an empty content the stream still ends with the
\* two body newlines, the whole footer and the cut.
C21_EmptyHeaderEmptyContent ==
    Encoded =>
        LET c == call.arg
            out == call.result.value
            b == BodyStart(out, c)
        IN /\ c.headerText = <<>> =>
                 /\ SubSeq(out, 1, 2) = <<27, 64>>
                 /\ SubSeq(out, 3, 4) = <<27, 97>>
                 /\ SubSeq(out, 6, 7) = <<29, 33>>
                 /\ b = 9
           /\ c.content = <<>> =>
                 SubSeq(out, b, Len(out)) = <<10, 10>> \o TailBytes

C21_Witness ==
    /\ Encoded
    /\ call.arg.headerText = <<>>
    /\ call.arg.content = <<>>
    /\ Len(call.result.value) = 61

\* The opcode parameters of the alignment and size tables.
AlignOpcode(a) == CASE a = "left" -> 0 [] a = "center" -> 1 [] a = "right" -> 2
SizeOpcode(f) ==
    CASE f = "sm" -> 0 [] f = "base" -> 0 [] f = "lg" -> 17 [] f = "xl" -> 34

\* C22 as stated: the alignment command of the body's textAlign is the three
\* bytes immediately before the body bytes.
C22_AlignImmediatelyBeforeBody ==
    (Encoded /\ call.arg.textAlign \in TextAligns) =>
        LET c == call.arg
            out == call.result.value
            b == BodyStart(out, c)
        IN SubSeq(out, b - 3, b - 1) = <<27, 97, AlignOpcode(c.textAlign)>>

\* C22 amended: the alignment command of the body's textAlign precedes the
\* body bytes with only the three-byte size command in between.
C22_AlignBeforeSizeAndBody ==
    (Encoded /\ call.arg.textAlign \in TextAligns) =>
        LET c == call.arg
            out == call.result.value
            b == BodyStart(out, c)
        IN /\ SubSeq(out, b - 6, b - 4) = <<27, 97, AlignOpcode(c.textAlign)>>
           /\ SubSeq(out, b - 3, b - 2) = <<29, 33>>
           /\ SubSeq(out, b, b + Len(BodyBytes(c)) - 1) = BodyBytes(c)

C22_Witness ==
    /\ Encoded
    /\ call.arg.textAlign = "right"
    /\ call.arg.headerText # <<>>
    /\ call.arg.content = ShortText

\* C23: the size command right before the body bytes carries 0x00 for sm
\* and base, 0x11 for lg and 0x22 for xl.
C23_SizeCommand ==
    (Encoded /\ call.arg.fontSize \in FontSizes) =>
        LET c == call.arg
            out == call.result.value
            b == BodyStart(out, c)
        IN SubSeq(out, b - 3, b - 1) = <<29, 33, SizeOpcode(c.fontSize)>>

C23_Witness ==
    /\ Encoded
    /\ call.arg.fontSize = "xl"
    /\ call.arg.content = ShortText
    /\ call.result.value[BodyStart(call.result.value, call.arg) - 1] = 34

\* C24: a non-empty headerText is sent as center, bold on, the upper-cased
\* text and two newlines, bold off, whatever textAlign and bold are, and the
\* body's commands and bytes follow the bold off.
C24_HeaderBlock ==
    (Encoded /\ call.arg.headerText # <<>>) =>
        LET c == call.arg
            out == call.result.value
            h == TextEncode(toUpperCase(c.headerText))
            e == 8 + Len(h) + 2
        IN /\ SubSeq(out, 3, 8) = <<27, 97, 1, 27, 69, 1>>
           /\ SubSeq(out, 9, e) = h \o <<10, 10>>
           /\ SubSeq(out, e + 1, e + 3) = <<27, 69, 0>>
           /\ BodyStart(out, c) = e + 10
           /\ c.headerText = <<104, 233>> => h = <<72, 195, 137>>

C24_Witness ==
    /\ Encoded
    /\ call.arg.headerText = <<104, 233>>
    /\ call.arg.textAlign = "left"
    /\ ~call.arg.bold
    /\ SubSeq(call.result.value, 9, 13) = <<72, 195, 137, 10, 10>>

\* The order of the stream: reset, the optional header block, the body's
\* alignment and size commands, the body, and then center, normal size, the
\* banner and the cut as the last bytes, the same for every config.
StreamOrder(out, c) ==
    LET b == BodyStart(out, c)
    IN /\ SubSeq(out, 1, 2) = <<27, 64>>
       /\ IF c.headerText = <<>> THEN b = 9
          ELSE /\ SubSeq(out, 3, 8) = <<27, 97, 1, 27, 69, 1>>
               /\ SubSeq(out, b - 9, b - 7) = <<27, 69, 0>>
       /\ SubSeq(out, b - 6, b - 5) = <<27, 97>>
       /\ SubSeq(out, b - 3, b - 2) = <<29, 33>>
       /\ SubSeq(out, b, b + Len(BodyBytes(c)) - 1) = BodyBytes(c)
       /\ SubSeq(out, b + Len(BodyBytes(c)), Len(out)) = TailBytes

\* The 42 bytes of the banner, and whether they spell "thank" in any case.
Banner(out) == SubSeq(out, Len(out) - 44, Len(out) - 3)
LowerByte(x) == IF x >= 65 /\ x <= 90 THEN x + 32 ELSE x
MentionsThanks(bytes) ==
    \E i \in 1..(Len(bytes) - 4) :
        [k \in 1..5 |-> LowerByte(bytes[i + k - 1])] = <<116, 104, 97, 110, 107>>

\* C25 as stated: the stream has the fixed order and its banner is a
\* thank-you text.
C25_OrderAndThankYouBanner ==
    Encoded =>
        /\ StreamOrder(call.result.value, call.arg)
        /\ MentionsThanks(Banner(call.result.value))

\* C25 amended: the stream has the fixed order and its banner is the fixed
\* text "--- Developed by --- / Mubasshir Husain" with its newlines.
C25_OrderAndFixedBanner ==
    Encoded =>
        /\ StreamOrder(call.result.value, call.arg)
        /\ Banner(call.result.value) = FooterText
        /\ ~MentionsThanks(Banner(call.result.value))

C25_Witness ==
    /\ Encoded
    /\ call.arg.headerText = DefaultHeaderText
    /\ call.arg.content = DefaultContent
    /\ call.arg.textAlign = "right"
    /\ Len(call.result.value) = 189

\* C26: the bytes are those of the config with bold, headerImage,
\* headerImageName, useBluetooth and linkedPrinterName replaced by any other
\* values.
C26_FourFieldsOnly ==
    Encoded =>
        \A b \in BOOLEAN, img \in {NULL, "data:image/png"},
           nm \in {"", "logo.png"}, ub \in BOOLEAN, lp \in {NULL, "P1"} :
            encodeEscPos([call.arg EXCEPT !.bold = b,
                                          !.headerImage = img,
                                          !.headerImageName = nm,
                                          !.useBluetooth = ub,
                                          !.linkedPrinterName = lp])
               = call.result.value

C26_Witness ==
    /\ Encoded
    /\ call.arg.bold
    /\ call.arg.headerImage # NULL
    /\ call.arg.useBluetooth
    /\ call.arg.linkedPrinterName = "P1"
    /\ call.arg.content = ShortText
    /\ call.result.value =
          encodeEscPos([DefaultConfig EXCEPT !.headerText = call.arg.headerText,
                                             !.content = ShortText,
                                             !.textAlign = call.arg.textAlign,
                                             !.fontSize = call.arg.fontSize])

\* C27: a call of encodeEscPos on a config of the form or of the startup
\* load returns bytes and raises no error.
C27_Total ==
    (call.st = "returned" /\ call.fn = "encodeEscPos") => ~call.result.threw

(***************************************************************************)
(* Properties of a print attempt and a link next to edits of the config.   *)
(***************************************************************************)
\* The bytes attempt a has handed to writeValue so far.
Written(a) == Flatten(a.written)

\* C28: an attempt keeps the config of the moment the print was started,
\* and whenever it hands a chunk to writeValue, the bytes written so far are
\* the first bytes of the encoding of that config.
C28_SnapshotAtStart ==
    [][/\ StartsAttempt =>
             /\ attempts'[Len(attempts')].cfg = config
             /\ attempts'[Len(attempts')].written = <<>>
       /\ \A n \in Attempts :
             /\ attempts'[n].cfg = attempts[n].cfg
             /\ attempts'[n].written # attempts[n].written =>
                   LET a == attempts'[n]
                   IN Written(a) = SubSeq(encodeEscPos(a.cfg), 1, Len(Written(a)))]_vars

C28_Witness ==
    \E n \in Attempts :
        /\ attempts[n].pc = "Writing"
        /\ Len(attempts[n].written) >= 2
        /\ config.content # attempts[n].cfg.content
        /\ encodeEscPos(config) # encodeEscPos(attempts[n].cfg)

\* The fields of the config that a link does not name.
OtherFields ==
    {"content", "headerText", "headerImage", "headerImageName", "fontSize",
     "textAlign", "bold"}

\* C29: the step that completes a link leaves every field of the config but
\* linkedPrinterName and useBluetooth as it was right before.
C29_LinkFrame ==
    [][\A n \in Links :
         (links[n].st = "pending" /\ links'[n].st = "linked") =>
            \A k \in OtherFields : config'[k] = config[k]]_vars

\* C30: every started print attempt ends as Done or Failed and every started
\* link ends, and the step that ends an attempt leaves loading false and the
\* step that ends a link leaves isConnecting false.
C30_EndsAndReleases ==
    /\ \A n \in 1..MaxPrints :
          (n \in Attempts /\ Active(attempts[n]))
             ~> (n \in Attempts /\ attempts[n].pc \in {"Done", "Failed"})
    /\ \A n \in 1..MaxLinks :
          (n \in Links /\ links[n].st = "pending")
             ~> (n \in Links /\ links[n].st \in {"linked", "failed"})
    /\ [][/\ \A n \in Attempts :
               (Active(attempts[n]) /\ ~Active(attempts'[n])) => ~loading'
          /\ \A n \in Links :
               (links[n].st = "pending" /\ links'[n].st # "pending")
                  => ~isConnecting']_vars

C30_Witness ==
    /\ ~loading
    /\ ~isConnecting
    /\ \E n \in Attempts : attempts[n].pc = "Done" /\ attempts[n].written # <<>>
    /\ \E n \in Links : links[n].st = "failed"

====
